---- MODULE Spec2Model ----
(***************************************************************************)
(* A model of the LS-8 style emulator in src/cpu.py: the CPU object, its   *)
(* instruction handlers, the ALU and the fetch-decode-execute loop of      *)
(* CPU.run.  Values are Python integers (unbounded), lists are indexed     *)
(* the way Python indexes them (negative indices count from the end, an    *)
(* index outside -n..n-1 raises IndexError), and an uncaught exception     *)
(* ends the process with exit status 1 and a traceback on stderr.          *)
(***************************************************************************)
EXTENDS Integers, Sequences, FiniteSets, TLC

VARIABLES image, ram, reg, PC, FL, operand_a, operand_b, MAR, MDR,
          out, eol, err, status, exit_code, log

vars == <<image, ram, reg, PC, FL, operand_a, operand_b, MAR, MDR,
          out, eol, err, status, exit_code, log>>

----------------------------------------------------------------------------
(* Bounds of the model *)

\* number of fetch-decode-execute cycles explored per run
MaxSteps == 14

----------------------------------------------------------------------------
(* Operation tables, src/cpu.py lines 4-25 *)

HLT == 1
LDI == 130
PRN == 71
PUSH == 69
POP == 70
CALL == 80
RET == 17
JMP == 84
JEQ == 85
JNE == 86

binary_op ==
  (HLT :> "HLT") @@ (LDI :> "LDI") @@ (PRN :> "PRN") @@ (PUSH :> "PUSH") @@
  (POP :> "POP") @@ (CALL :> "CALL") @@ (RET :> "RET") @@ (JMP :> "JMP") @@
  (JEQ :> "JEQ") @@ (JNE :> "JNE")

ADD == 160
SUB == 161
MUL == 162
CMP == 167

math_op == [ADD |-> ADD, SUB |-> SUB, MUL |-> MUL, CMP |-> CMP]

SP == 7

RamSize == 256
NumRegs == 8
SPInit == 244

\* the value of an attribute that was never assigned
None == "None"

----------------------------------------------------------------------------
(* Python list indexing and integer formatting *)

\* list[i] is defined for -n <= i < n
InRange(i, n) == -n <= i /\ i < n

\* a negative index counts from the end of the list
Norm(i, n) == IF i < 0 THEN i + n ELSE i

Digit == <<"0", "1", "2", "3", "4", "5", "6", "7", "8", "9">>

\* the decimal digits of a natural number
RECURSIVE decimal(_)
decimal(n) == IF n < 10 THEN Digit[n + 1]
              ELSE decimal(n \div 10) \o Digit[(n % 10) + 1]

\* how many decimal digits a natural number has
RECURSIVE ndigits(_)
ndigits(n) == IF n < 10 THEN 1 ELSE 1 + ndigits(n \div 10)

\* sys.get_int_max_str_digits(): the longest int that str() converts
int_max_str_digits == 4300

\* str(n) as print, f-strings and tracebacks format an int: decimal, "-"
\* for negatives; ok is FALSE for an int with more digits than the limit,
\* for which str() raises ValueError instead of returning the text
str(n) ==
  [ok   |-> ndigits(IF n < 0 THEN -n ELSE n) <= int_max_str_digits,
   text |-> IF n < 0 THEN "-" \o decimal(-n) ELSE decimal(n)]

\* an uncaught exception: traceback on stderr, exit status 1
Raise(m, type, message) ==
  [m EXCEPT !.status = "raised", !.exit_code = 1, !.err = <<type, message>>]

\* how many binary digits a natural number has
RECURSIVE bit_length(_)
bit_length(n) == IF n = 0 THEN 0 ELSE 1 + bit_length(n \div 2)

\* the binary digits of sys.maxsize, the largest index of the interpreter
maxsize_bits == 63

\* an index has to fit the signed integer that holds sys.maxsize
fits_index(i) == bit_length(IF i < 0 THEN -i - 1 ELSE i) <= maxsize_bits

\* reading list[i] with i out of range
IndexError(m, i) ==
  Raise(m, "IndexError:",
        IF fits_index(i) THEN "list index out of range"
        ELSE "cannot fit 'int' into an index-sized integer")

\* assigning list[i] with i out of range
StoreError(m, i) ==
  Raise(m, "IndexError:",
        IF fits_index(i) THEN "list assignment index out of range"
        ELSE "cannot fit 'int' into an index-sized integer")

\* str() raising for an int beyond the limit
StrError(m) ==
  Raise(m, "ValueError:",
        "Exceeds the limit (" \o str(int_max_str_digits).text
        \o " digits) for integer string conversion; "
        \o "use sys.set_int_max_str_digits() to increase the limit")

\* a dictionary without the key; the traceback shows the key, or that
\* it could not be shown
KeyError(m, key) ==
  Raise(m, "KeyError:",
        IF str(key).ok THEN str(key).text ELSE "<exception str() failed>")

\* Standard output is the sequence out of its lines; eol says that the
\* last of them has been ended, so that the next text starts a new one.

\* print(text, end=''): the text, no end of line
write(m, text) ==
  IF text = "" THEN m
  ELSE IF m.eol THEN [m EXCEPT !.out = Append(@, text), !.eol = FALSE]
  ELSE [m EXCEPT !.out[Len(m.out)] = @ \o text]

\* print(text): the text and the end of the line
print(m, text) ==
  IF m.eol THEN [m EXCEPT !.out = Append(@, text)]
  ELSE [m EXCEPT !.out[Len(m.out)] = @ \o text, !.eol = TRUE]

----------------------------------------------------------------------------
(* The machine: CPU.__init__ and CPU.load *)

init_reg == [r \in 0 .. NumRegs - 1 |-> IF r = SP THEN SPInit ELSE 0]

\* CPU(): the object __init__ leaves, on a process that has written nothing
CPU ==
  [ram |-> [a \in 0 .. RamSize - 1 |-> 0], reg |-> init_reg,
   operand_a |-> None, operand_b |-> None, PC |-> 0, MAR |-> None,
   MDR |-> None, FL |-> 0, out |-> << >>, eol |-> TRUE, err |-> << >>,
   status |-> "running", exit_code |-> 0]

\* A text is the sequence of the code points of its characters.

\* the characters str.isspace() holds of, which str.strip() removes
Whitespace ==
  (9 .. 13) \cup (28 .. 32) \cup (8192 .. 8202) \cup (8232 .. 8233) \cup
  {133, 160, 5760, 8239, 8287, 12288}

\* the first and the last index of s that hold no blank, Len(s) + 1 and 0
\* when s is blank
lskip(s) ==
  CHOOSE i \in 1 .. Len(s) + 1 :
    /\ i = Len(s) + 1 \/ s[i] \notin Whitespace
    /\ \A j \in 1 .. i - 1 : s[j] \in Whitespace

rskip(s) ==
  CHOOSE i \in 0 .. Len(s) :
    /\ i = 0 \/ s[i] \notin Whitespace
    /\ \A j \in i + 1 .. Len(s) : s[j] \in Whitespace

\* s.strip()
strip(s) == SubSeq(s, lskip(s), rskip(s))

\* the piece of s after the cut p: up to the next cut or the end of s
piece(s, cuts, p) ==
  SubSeq(s, p + 1,
         IF \E q \in cuts : q > p
         THEN (CHOOSE q \in cuts : q > p /\ \A r \in cuts : r > p => q <= r) - 1
         ELSE Len(s))

\* the pieces of s after the cuts, in the order of the cuts
pieces(s, cuts) ==
  [k \in 1 .. Cardinality(cuts) |->
     piece(s, cuts,
           CHOOSE p \in cuts : Cardinality({q \in cuts : q < p}) = k - 1)]

\* s.split(sep), sep one character: the pieces of s between its occurrences
split(s, sep) == pieces(s, {0} \cup {i \in 1 .. Len(s) : s[i] = sep})

\* the characters int() skips around a number: of the ASCII ones only
\* 9 .. 13 and the space
IntSpace == Whitespace \ (28 .. 31)

\* the characters of decimal value 0; those of value 1 to 9 follow each
Zeros ==
  {48, 1632, 1776, 1984, 2406, 2534, 2662, 2790, 2918, 3046, 3174, 3302,
   3430, 3558, 3664, 3792, 3872, 4160, 4240, 6112, 6160, 6470, 6608, 6784,
   6800, 6992, 7088, 7232, 7248, 42528, 43216, 43264, 43472, 43504, 43600,
   44016, 65296, 66720, 68912, 69734, 69872, 69942, 70096, 70384, 70736,
   70864, 71248, 71360, 71472, 71904, 72016, 72784, 73040, 73120, 92768,
   92864, 93008, 120782, 120792, 120802, 120812, 120822, 123200, 123632,
   125264, 130032}

\* the value of c as a binary digit, -1 when it is none
bit(c) ==
  IF c < 128 THEN (IF c = 48 THEN 0 ELSE IF c = 49 THEN 1 ELSE -1)
  ELSE IF c \in Zeros THEN 0
  ELSE IF c - 1 \in Zeros THEN 1
  ELSE -1

\* two runs of binary digits, the second of n digits, read as one
radix(high, low) ==
  [value |-> IF high.value = 0 THEN low.value
             ELSE high.value * 2 ^ low.n + low.value,
   n |-> high.n + low.n]

\* the value of the binary digits s[lo .. hi], the underscores left out,
\* and the number of the digits
RECURSIVE digits(_, _, _)
digits(s, lo, hi) ==
  IF lo > hi THEN [value |-> 0, n |-> 0]
  ELSE IF lo = hi
  THEN IF s[lo] = 95 THEN [value |-> 0, n |-> 0]
       ELSE [value |-> bit(s[lo]), n |-> 1]
  ELSE radix(digits(s, lo, (lo + hi) \div 2),
             digits(s, ((lo + hi) \div 2) + 1, hi))

\* s[lo .. hi] is binary digits with single underscores between them
number(s, lo, hi) ==
  /\ lo <= hi
  /\ \A i \in lo .. hi : bit(s[i]) >= 0 \/ s[i] = 95
  /\ s[lo] # 95
  /\ s[hi] # 95
  /\ \A i \in lo .. hi - 1 : s[i] # 95 \/ s[i + 1] # 95

\* where the digits of s[lo .. hi] start: after the sign at lo, if any,
\* after a zero with b or B, if any, and after one underscore behind these
after_sign(s, lo, hi) == IF lo <= hi /\ s[lo] \in {43, 45} THEN lo + 1 ELSE lo

prefixed(s, p, hi) == p < hi /\ bit(s[p]) = 0 /\ s[p + 1] \in {66, 98}

after_prefix(s, p, hi) ==
  IF ~prefixed(s, p, hi) THEN p
  ELSE IF p + 2 <= hi /\ s[p + 2] = 95 THEN p + 3
  ELSE p + 2

\* the number s[lo .. hi], whose digits start at from
literal(s, lo, hi, from) ==
  IF ~number(s, from, hi) THEN [ok |-> FALSE, value |-> 0]
  ELSE IF lo <= hi /\ s[lo] = 45
  THEN [ok |-> TRUE, value |-> -digits(s, from, hi).value]
  ELSE [ok |-> TRUE, value |-> digits(s, from, hi).value]

\* the first and the last index of s that int() does not skip
int_from(s) ==
  CHOOSE i \in 1 .. Len(s) + 1 :
    /\ i = Len(s) + 1 \/ s[i] \notin IntSpace
    /\ \A j \in 1 .. i - 1 : s[j] \in IntSpace

int_to(s) ==
  CHOOSE i \in 0 .. Len(s) :
    /\ i = 0 \/ s[i] \notin IntSpace
    /\ \A j \in i + 1 .. Len(s) : s[j] \in IntSpace

\* the number s[lo .. hi], which has no blank at either end
signed(s, lo, hi) ==
  literal(s, lo, hi, after_prefix(s, after_sign(s, lo, hi), hi))

\* int(s, 2): blanks around, a sign, a zero with b or B and one underscore
\* after it, then the digits; ok is FALSE where int raises ValueError
int(s) == signed(s, int_from(s), int_to(s))

\* the characters str.isprintable() does not hold of, as ranges
NonPrintable ==
  {<<0, 31>>, <<127, 160>>, <<173, 173>>, <<888, 889>>, <<896, 899>>, <<907,
   907>>, <<909, 909>>, <<930, 930>>, <<1328, 1328>>, <<1367, 1368>>,
   <<1419, 1420>>, <<1424, 1424>>, <<1480, 1487>>, <<1515, 1518>>, <<1525,
   1541>>, <<1564, 1564>>, <<1757, 1757>>, <<1806, 1807>>, <<1867, 1868>>,
   <<1970, 1983>>, <<2043, 2044>>, <<2094, 2095>>, <<2111, 2111>>, <<2140,
   2141>>, <<2143, 2143>>, <<2155, 2159>>, <<2191, 2199>>, <<2274, 2274>>,
   <<2436, 2436>>, <<2445, 2446>>, <<2449, 2450>>, <<2473, 2473>>, <<2481,
   2481>>, <<2483, 2485>>, <<2490, 2491>>, <<2501, 2502>>, <<2505, 2506>>,
   <<2511, 2518>>, <<2520, 2523>>, <<2526, 2526>>, <<2532, 2533>>, <<2559,
   2560>>, <<2564, 2564>>, <<2571, 2574>>, <<2577, 2578>>, <<2601, 2601>>,
   <<2609, 2609>>, <<2612, 2612>>, <<2615, 2615>>, <<2618, 2619>>, <<2621,
   2621>>, <<2627, 2630>>, <<2633, 2634>>, <<2638, 2640>>, <<2642, 2648>>,
   <<2653, 2653>>, <<2655, 2661>>, <<2679, 2688>>, <<2692, 2692>>, <<2702,
   2702>>, <<2706, 2706>>, <<2729, 2729>>, <<2737, 2737>>, <<2740, 2740>>,
   <<2746, 2747>>, <<2758, 2758>>, <<2762, 2762>>, <<2766, 2767>>, <<2769,
   2783>>, <<2788, 2789>>, <<2802, 2808>>, <<2816, 2816>>, <<2820, 2820>>,
   <<2829, 2830>>, <<2833, 2834>>, <<2857, 2857>>, <<2865, 2865>>, <<2868,
   2868>>, <<2874, 2875>>, <<2885, 2886>>, <<2889, 2890>>, <<2894, 2900>>,
   <<2904, 2907>>, <<2910, 2910>>, <<2916, 2917>>, <<2936, 2945>>, <<2948,
   2948>>, <<2955, 2957>>, <<2961, 2961>>, <<2966, 2968>>, <<2971, 2971>>,
   <<2973, 2973>>, <<2976, 2978>>, <<2981, 2983>>, <<2987, 2989>>, <<3002,
   3005>>, <<3011, 3013>>, <<3017, 3017>>, <<3022, 3023>>, <<3025, 3030>>,
   <<3032, 3045>>, <<3067, 3071>>, <<3085, 3085>>, <<3089, 3089>>, <<3113,
   3113>>, <<3130, 3131>>, <<3141, 3141>>, <<3145, 3145>>, <<3150, 3156>>,
   <<3159, 3159>>, <<3163, 3164>>, <<3166, 3167>>, <<3172, 3173>>, <<3184,
   3190>>, <<3213, 3213>>, <<3217, 3217>>, <<3241, 3241>>, <<3252, 3252>>,
   <<3258, 3259>>, <<3269, 3269>>, <<3273, 3273>>, <<3278, 3284>>, <<3287,
   3292>>, <<3295, 3295>>, <<3300, 3301>>, <<3312, 3312>>, <<3315, 3327>>,
   <<3341, 3341>>, <<3345, 3345>>, <<3397, 3397>>, <<3401, 3401>>, <<3408,
   3411>>, <<3428, 3429>>, <<3456, 3456>>, <<3460, 3460>>, <<3479, 3481>>,
   <<3506, 3506>>, <<3516, 3516>>, <<3518, 3519>>, <<3527, 3529>>, <<3531,
   3534>>, <<3541, 3541>>, <<3543, 3543>>, <<3552, 3557>>, <<3568, 3569>>,
   <<3573, 3584>>, <<3643, 3646>>, <<3676, 3712>>, <<3715, 3715>>, <<3717,
   3717>>, <<3723, 3723>>, <<3748, 3748>>, <<3750, 3750>>, <<3774, 3775>>,
   <<3781, 3781>>, <<3783, 3783>>, <<3790, 3791>>, <<3802, 3803>>, <<3808,
   3839>>, <<3912, 3912>>, <<3949, 3952>>, <<3992, 3992>>, <<4029, 4029>>,
   <<4045, 4045>>, <<4059, 4095>>, <<4294, 4294>>, <<4296, 4300>>, <<4302,
   4303>>, <<4681, 4681>>, <<4686, 4687>>, <<4695, 4695>>, <<4697, 4697>>,
   <<4702, 4703>>, <<4745, 4745>>, <<4750, 4751>>, <<4785, 4785>>, <<4790,
   4791>>, <<4799, 4799>>, <<4801, 4801>>, <<4806, 4807>>, <<4823, 4823>>,
   <<4881, 4881>>, <<4886, 4887>>, <<4955, 4956>>, <<4989, 4991>>, <<5018,
   5023>>, <<5110, 5111>>, <<5118, 5119>>, <<5760, 5760>>, <<5789, 5791>>,
   <<5881, 5887>>, <<5910, 5918>>, <<5943, 5951>>, <<5972, 5983>>, <<5997,
   5997>>, <<6001, 6001>>, <<6004, 6015>>, <<6110, 6111>>, <<6122, 6127>>,
   <<6138, 6143>>, <<6158, 6158>>, <<6170, 6175>>, <<6265, 6271>>, <<6315,
   6319>>, <<6390, 6399>>, <<6431, 6431>>, <<6444, 6447>>, <<6460, 6463>>,
   <<6465, 6467>>, <<6510, 6511>>, <<6517, 6527>>, <<6572, 6575>>, <<6602,
   6607>>, <<6619, 6621>>, <<6684, 6685>>, <<6751, 6751>>, <<6781, 6782>>,
   <<6794, 6799>>, <<6810, 6815>>, <<6830, 6831>>, <<6863, 6911>>, <<6989,
   6991>>, <<7039, 7039>>, <<7156, 7163>>, <<7224, 7226>>, <<7242, 7244>>,
   <<7305, 7311>>, <<7355, 7356>>, <<7368, 7375>>, <<7419, 7423>>, <<7958,
   7959>>, <<7966, 7967>>, <<8006, 8007>>, <<8014, 8015>>, <<8024, 8024>>,
   <<8026, 8026>>, <<8028, 8028>>, <<8030, 8030>>, <<8062, 8063>>, <<8117,
   8117>>, <<8133, 8133>>, <<8148, 8149>>, <<8156, 8156>>, <<8176, 8177>>,
   <<8181, 8181>>, <<8191, 8207>>, <<8232, 8239>>, <<8287, 8303>>, <<8306,
   8307>>, <<8335, 8335>>, <<8349, 8351>>, <<8385, 8399>>, <<8433, 8447>>,
   <<8588, 8591>>, <<9255, 9279>>, <<9291, 9311>>, <<11124, 11125>>,
   <<11158, 11158>>, <<11508, 11512>>, <<11558, 11558>>, <<11560, 11564>>,
   <<11566, 11567>>, <<11624, 11630>>, <<11633, 11646>>, <<11671, 11679>>,
   <<11687, 11687>>, <<11695, 11695>>, <<11703, 11703>>, <<11711, 11711>>,
   <<11719, 11719>>, <<11727, 11727>>, <<11735, 11735>>, <<11743, 11743>>,
   <<11870, 11903>>, <<11930, 11930>>, <<12020, 12031>>, <<12246, 12271>>,
   <<12284, 12288>>, <<12352, 12352>>, <<12439, 12440>>, <<12544, 12548>>,
   <<12592, 12592>>, <<12687, 12687>>, <<12772, 12783>>, <<12831, 12831>>,
   <<42125, 42127>>, <<42183, 42191>>, <<42540, 42559>>, <<42744, 42751>>,
   <<42955, 42959>>, <<42962, 42962>>, <<42964, 42964>>, <<42970, 42993>>,
   <<43053, 43055>>, <<43066, 43071>>, <<43128, 43135>>, <<43206, 43213>>,
   <<43226, 43231>>, <<43348, 43358>>, <<43389, 43391>>, <<43470, 43470>>,
   <<43482, 43485>>, <<43519, 43519>>, <<43575, 43583>>, <<43598, 43599>>,
   <<43610, 43611>>, <<43715, 43738>>, <<43767, 43776>>, <<43783, 43784>>,
   <<43791, 43792>>, <<43799, 43807>>, <<43815, 43815>>, <<43823, 43823>>,
   <<43884, 43887>>, <<44014, 44015>>, <<44026, 44031>>, <<55204, 55215>>,
   <<55239, 55242>>, <<55292, 63743>>, <<64110, 64111>>, <<64218, 64255>>,
   <<64263, 64274>>, <<64280, 64284>>, <<64311, 64311>>, <<64317, 64317>>,
   <<64319, 64319>>, <<64322, 64322>>, <<64325, 64325>>, <<64451, 64466>>,
   <<64912, 64913>>, <<64968, 64974>>, <<64976, 65007>>, <<65050, 65055>>,
   <<65107, 65107>>, <<65127, 65127>>, <<65132, 65135>>, <<65141, 65141>>,
   <<65277, 65280>>, <<65471, 65473>>, <<65480, 65481>>, <<65488, 65489>>,
   <<65496, 65497>>, <<65501, 65503>>, <<65511, 65511>>, <<65519, 65531>>,
   <<65534, 65535>>, <<65548, 65548>>, <<65575, 65575>>, <<65595, 65595>>,
   <<65598, 65598>>, <<65614, 65615>>, <<65630, 65663>>, <<65787, 65791>>,
   <<65795, 65798>>, <<65844, 65846>>, <<65935, 65935>>, <<65949, 65951>>,
   <<65953, 65999>>, <<66046, 66175>>, <<66205, 66207>>, <<66257, 66271>>,
   <<66300, 66303>>, <<66340, 66348>>, <<66379, 66383>>, <<66427, 66431>>,
   <<66462, 66462>>, <<66500, 66503>>, <<66518, 66559>>, <<66718, 66719>>,
   <<66730, 66735>>, <<66772, 66775>>, <<66812, 66815>>, <<66856, 66863>>,
   <<66916, 66926>>, <<66939, 66939>>, <<66955, 66955>>, <<66963, 66963>>,
   <<66966, 66966>>, <<66978, 66978>>, <<66994, 66994>>, <<67002, 67002>>,
   <<67005, 67071>>, <<67383, 67391>>, <<67414, 67423>>, <<67432, 67455>>,
   <<67462, 67462>>, <<67505, 67505>>, <<67515, 67583>>, <<67590, 67591>>,
   <<67593, 67593>>, <<67638, 67638>>, <<67641, 67643>>, <<67645, 67646>>,
   <<67670, 67670>>, <<67743, 67750>>, <<67760, 67807>>, <<67827, 67827>>,
   <<67830, 67834>>, <<67868, 67870>>, <<67898, 67902>>, <<67904, 67967>>,
   <<68024, 68027>>, <<68048, 68049>>, <<68100, 68100>>, <<68103, 68107>>,
   <<68116, 68116>>, <<68120, 68120>>, <<68150, 68151>>, <<68155, 68158>>,
   <<68169, 68175>>, <<68185, 68191>>, <<68256, 68287>>, <<68327, 68330>>,
   <<68343, 68351>>, <<68406, 68408>>, <<68438, 68439>>, <<68467, 68471>>,
   <<68498, 68504>>, <<68509, 68520>>, <<68528, 68607>>, <<68681, 68735>>,
   <<68787, 68799>>, <<68851, 68857>>, <<68904, 68911>>, <<68922, 69215>>,
   <<69247, 69247>>, <<69290, 69290>>, <<69294, 69295>>, <<69298, 69375>>,
   <<69416, 69423>>, <<69466, 69487>>, <<69514, 69551>>, <<69580, 69599>>,
   <<69623, 69631>>, <<69710, 69713>>, <<69750, 69758>>, <<69821, 69821>>,
   <<69827, 69839>>, <<69865, 69871>>, <<69882, 69887>>, <<69941, 69941>>,
   <<69960, 69967>>, <<70007, 70015>>, <<70112, 70112>>, <<70133, 70143>>,
   <<70162, 70162>>, <<70207, 70271>>, <<70279, 70279>>, <<70281, 70281>>,
   <<70286, 70286>>, <<70302, 70302>>, <<70314, 70319>>, <<70379, 70383>>,
   <<70394, 70399>>, <<70404, 70404>>, <<70413, 70414>>, <<70417, 70418>>,
   <<70441, 70441>>, <<70449, 70449>>, <<70452, 70452>>, <<70458, 70458>>,
   <<70469, 70470>>, <<70473, 70474>>, <<70478, 70479>>, <<70481, 70486>>,
   <<70488, 70492>>, <<70500, 70501>>, <<70509, 70511>>, <<70517, 70655>>,
   <<70748, 70748>>, <<70754, 70783>>, <<70856, 70863>>, <<70874, 71039>>,
   <<71094, 71095>>, <<71134, 71167>>, <<71237, 71247>>, <<71258, 71263>>,
   <<71277, 71295>>, <<71354, 71359>>, <<71370, 71423>>, <<71451, 71452>>,
   <<71468, 71471>>, <<71495, 71679>>, <<71740, 71839>>, <<71923, 71934>>,
   <<71943, 71944>>, <<71946, 71947>>, <<71956, 71956>>, <<71959, 71959>>,
   <<71990, 71990>>, <<71993, 71994>>, <<72007, 72015>>, <<72026, 72095>>,
   <<72104, 72105>>, <<72152, 72153>>, <<72165, 72191>>, <<72264, 72271>>,
   <<72355, 72367>>, <<72441, 72703>>, <<72713, 72713>>, <<72759, 72759>>,
   <<72774, 72783>>, <<72813, 72815>>, <<72848, 72849>>, <<72872, 72872>>,
   <<72887, 72959>>, <<72967, 72967>>, <<72970, 72970>>, <<73015, 73017>>,
   <<73019, 73019>>, <<73022, 73022>>, <<73032, 73039>>, <<73050, 73055>>,
   <<73062, 73062>>, <<73065, 73065>>, <<73103, 73103>>, <<73106, 73106>>,
   <<73113, 73119>>, <<73130, 73439>>, <<73465, 73647>>, <<73649, 73663>>,
   <<73714, 73726>>, <<74650, 74751>>, <<74863, 74863>>, <<74869, 74879>>,
   <<75076, 77711>>, <<77811, 77823>>, <<78895, 82943>>, <<83527, 92159>>,
   <<92729, 92735>>, <<92767, 92767>>, <<92778, 92781>>, <<92863, 92863>>,
   <<92874, 92879>>, <<92910, 92911>>, <<92918, 92927>>, <<92998, 93007>>,
   <<93018, 93018>>, <<93026, 93026>>, <<93048, 93052>>, <<93072, 93759>>,
   <<93851, 93951>>, <<94027, 94030>>, <<94088, 94094>>, <<94112, 94175>>,
   <<94181, 94191>>, <<94194, 94207>>, <<100344, 100351>>, <<101590,
   101631>>, <<101641, 110575>>, <<110580, 110580>>, <<110588, 110588>>,
   <<110591, 110591>>, <<110883, 110927>>, <<110931, 110947>>, <<110952,
   110959>>, <<111356, 113663>>, <<113771, 113775>>, <<113789, 113791>>,
   <<113801, 113807>>, <<113818, 113819>>, <<113824, 118527>>, <<118574,
   118575>>, <<118599, 118607>>, <<118724, 118783>>, <<119030, 119039>>,
   <<119079, 119080>>, <<119155, 119162>>, <<119275, 119295>>, <<119366,
   119519>>, <<119540, 119551>>, <<119639, 119647>>, <<119673, 119807>>,
   <<119893, 119893>>, <<119965, 119965>>, <<119968, 119969>>, <<119971,
   119972>>, <<119975, 119976>>, <<119981, 119981>>, <<119994, 119994>>,
   <<119996, 119996>>, <<120004, 120004>>, <<120070, 120070>>, <<120075,
   120076>>, <<120085, 120085>>, <<120093, 120093>>, <<120122, 120122>>,
   <<120127, 120127>>, <<120133, 120133>>, <<120135, 120137>>, <<120145,
   120145>>, <<120486, 120487>>, <<120780, 120781>>, <<121484, 121498>>,
   <<121504, 121504>>, <<121520, 122623>>, <<122655, 122879>>, <<122887,
   122887>>, <<122905, 122906>>, <<122914, 122914>>, <<122917, 122917>>,
   <<122923, 123135>>, <<123181, 123183>>, <<123198, 123199>>, <<123210,
   123213>>, <<123216, 123535>>, <<123567, 123583>>, <<123642, 123646>>,
   <<123648, 124895>>, <<124903, 124903>>, <<124908, 124908>>, <<124911,
   124911>>, <<124927, 124927>>, <<125125, 125126>>, <<125143, 125183>>,
   <<125260, 125263>>, <<125274, 125277>>, <<125280, 126064>>, <<126133,
   126208>>, <<126270, 126463>>, <<126468, 126468>>, <<126496, 126496>>,
   <<126499, 126499>>, <<126501, 126502>>, <<126504, 126504>>, <<126515,
   126515>>, <<126520, 126520>>, <<126522, 126522>>, <<126524, 126529>>,
   <<126531, 126534>>, <<126536, 126536>>, <<126538, 126538>>, <<126540,
   126540>>, <<126544, 126544>>, <<126547, 126547>>, <<126549, 126550>>,
   <<126552, 126552>>, <<126554, 126554>>, <<126556, 126556>>, <<126558,
   126558>>, <<126560, 126560>>, <<126563, 126563>>, <<126565, 126566>>,
   <<126571, 126571>>, <<126579, 126579>>, <<126584, 126584>>, <<126589,
   126589>>, <<126591, 126591>>, <<126602, 126602>>, <<126620, 126624>>,
   <<126628, 126628>>, <<126634, 126634>>, <<126652, 126703>>, <<126706,
   126975>>, <<127020, 127023>>, <<127124, 127135>>, <<127151, 127152>>,
   <<127168, 127168>>, <<127184, 127184>>, <<127222, 127231>>, <<127406,
   127461>>, <<127491, 127503>>, <<127548, 127551>>, <<127561, 127567>>,
   <<127570, 127583>>, <<127590, 127743>>, <<128728, 128732>>, <<128749,
   128751>>, <<128765, 128767>>, <<128884, 128895>>, <<128985, 128991>>,
   <<129004, 129007>>, <<129009, 129023>>, <<129036, 129039>>, <<129096,
   129103>>, <<129114, 129119>>, <<129160, 129167>>, <<129198, 129199>>,
   <<129202, 129279>>, <<129620, 129631>>, <<129646, 129647>>, <<129653,
   129655>>, <<129661, 129663>>, <<129671, 129679>>, <<129709, 129711>>,
   <<129723, 129727>>, <<129734, 129743>>, <<129754, 129759>>, <<129768,
   129775>>, <<129783, 129791>>, <<129939, 129939>>, <<129995, 130031>>,
   <<130042, 131071>>, <<173792, 173823>>, <<177977, 177983>>, <<178206,
   178207>>, <<183970, 183983>>, <<191457, 194559>>, <<195102, 196607>>,
   <<201547, 917759>>, <<918000, 1114111>>}

isprintable(c) == ~\E r \in NonPrintable : r[1] <= c /\ c <= r[2]

\* the n lower-case hexadecimal digits of c
hex(c, n) ==
  [k \in 1 .. n |->
     <<48, 49, 50, 51, 52, 53, 54, 55, 56, 57, 97, 98, 99, 100, 101, 102>>
       [((c \div 16 ^ (n - k)) % 16) + 1]]

\* one character of repr(s) between quotes of the kind quote
escape(c, quote) ==
  IF c = 92 \/ c = quote THEN <<92, c>>
  ELSE IF c = 9 THEN <<92, 116>>
  ELSE IF c = 10 THEN <<92, 110>>
  ELSE IF c = 13 THEN <<92, 114>>
  ELSE IF c < 32 \/ c = 127 THEN <<92, 120>> \o hex(c, 2)
  ELSE IF c < 127 \/ isprintable(c) THEN <<c>>
  ELSE IF c <= 255 THEN <<92, 120>> \o hex(c, 2)
  ELSE IF c <= 65535 THEN <<92, 117>> \o hex(c, 4)
  ELSE <<92, 85>> \o hex(c, 8)

\* the texts of s[lo .. hi] one after the other
RECURSIVE join(_, _, _)
join(s, lo, hi) ==
  IF lo > hi THEN << >>
  ELSE IF lo = hi THEN s[lo]
  ELSE join(s, lo, (lo + hi) \div 2) \o join(s, ((lo + hi) \div 2) + 1, hi)

\* the quote of repr(s): the double one when s has a single quote and no
\* double one
quote_of(s) ==
  IF (\E i \in 1 .. Len(s) : s[i] = 39) /\ ~(\E i \in 1 .. Len(s) : s[i] = 34)
  THEN 34
  ELSE 39

quoted(s, quote) ==
  <<quote>> \o join([i \in 1 .. Len(s) |-> escape(s[i], quote)], 1, Len(s))
            \o <<quote>>

\* repr(s)
repr(s) == quoted(s, quote_of(s))

\* the first n characters of s, "%.200R" for n = 200
precision(s, n) == IF Len(s) > n THEN SubSeq(s, 1, n) ELSE s

\* the message of the ValueError of int(s, 2),
\* "invalid literal for int() with base 2: " and at most 200 characters of
\* repr(s); a text, as s is
ValueError(m, s) ==
  Raise(m, "ValueError:",
        <<105, 110, 118, 97, 108, 105, 100, 32, 108, 105, 116, 101, 114, 97,
          108, 32, 102, 111, 114, 32, 105, 110, 116, 40, 41, 32, 119, 105,
          116, 104, 32, 98, 97, 115, 101, 32, 50, 58, 32>>
        \o precision(repr(s), 200))

\* lines 180-182: a value that is no binary number raises ValueError, one
\* past the end of the memory IndexError; st is the machine, the address
\* the next value goes to and the index in the file where the line starts
store(st, value, num) ==
  IF ~num.ok THEN [st EXCEPT !.m = ValueError(st.m, value)]
  ELSE IF ~InRange(st.address, RamSize)
  THEN [st EXCEPT !.m = StoreError(st.m, st.address)]
  ELSE [st EXCEPT !.m.ram[st.address] = num.value, !.address = @ + 1]

\* lines 176-178: a line that is blank once its comment is cut is skipped
retain(st, value) == IF value = << >> THEN st ELSE store(st, value, int(value))

\* lines 171-174: one line of the file
load_line(st, instruction) ==
  retain(st, strip(split(strip(instruction), 35)[1]))

\* the file object at the character i of the file: a line ends with \n,
\* with \r or with both, and is read with \n at its end
readline(st, program, i) ==
  IF program[i] = 10 /\ i > 1 /\ program[i - 1] = 13
  THEN [st EXCEPT !.start = i + 1]
  ELSE IF program[i] \in {10, 13}
  THEN [load_line(st, SubSeq(program, st.start, i - 1) \o <<10>>)
          EXCEPT !.start = i + 1]
  ELSE st

\* line 169: the lines that end in program[lo .. hi], in order, until one
\* raises; the range is halved, first half first
RECURSIVE load_lines(_, _, _, _)
load_lines(st, program, lo, hi) ==
  IF st.m.status # "running" \/ lo > hi THEN st
  ELSE IF lo = hi THEN readline(st, program, lo)
  ELSE load_lines(load_lines(st, program, lo, (lo + hi) \div 2),
                  program, ((lo + hi) \div 2) + 1, hi)

\* the last line, when the file does not end with the end of a line
last_line(st, program) ==
  IF st.m.status = "running" /\ st.start <= Len(program)
  THEN load_line(st, SubSeq(program, st.start, Len(program)))
  ELSE st

\* lines 164-182 on the text of the file
load_file(m, program) ==
  last_line(load_lines([m |-> m, address |-> 0, start |-> 1],
                       program, 1, Len(program)),
            program).m

\* lines 164-186 when open() or the reading of the file raises an
\* exception that line 184 does not catch
fault(m, exception) ==
  IF m.status # "running" \/ exception = << >> THEN m
  ELSE Raise(m, exception[1], exception[2])

\* load() on the command line argv.  files has every name that open()
\* finds; of each it gives the text that the file object yields, and in
\* fault the exception other than FileNotFoundError, its type and its
\* message, that open() or the reading raises after that text, << >> when
\* there is none: IsADirectoryError for a directory, NotADirectoryError
\* for a path through a file, UnicodeDecodeError for bytes that are not
\* UTF-8, each with no text before it unless the file is longer than the
\* buffer of the file object
load(m, argv, files) ==
  IF Len(argv) # 2
  THEN [print(m, "ERROR: Must have file name")
          EXCEPT !.status = "exit", !.exit_code = 1]
  ELSE IF argv[2] \notin DOMAIN files
  THEN [print(m, "File not found") EXCEPT !.status = "exit", !.exit_code = 2]
  ELSE fault(load_file(m, files[argv[2]].text), files[argv[2]].fault)

----------------------------------------------------------------------------
(* Memory access *)

\* the value read is left in MDR, which is also the value returned
ram_read(m, address) ==
  LET m1 == [m EXCEPT !.MAR = address] IN
  IF InRange(address, RamSize)
    THEN [m1 EXCEPT !.MDR = m.ram[Norm(address, RamSize)]]
    ELSE IndexError(m1, address)

ram_write(m, value, address) ==
  LET m1 == [m EXCEPT !.MAR = address, !.MDR = value] IN
  IF InRange(address, RamSize)
    THEN [m1 EXCEPT !.ram[Norm(address, RamSize)] = value]
    ELSE StoreError(m1, address)

----------------------------------------------------------------------------
(* Instruction handlers *)

\* call with the return address one byte short
call_short(m) ==
  LET m1 == [m EXCEPT !.reg[SP] = @ - 1]
      sp == m1.reg[SP]
      instruction_address == m.PC + 1
  IN IF ~InRange(sp, RamSize) THEN StoreError(m1, sp)
     ELSE LET m2 == [m1 EXCEPT !.ram[Norm(sp, RamSize)] = instruction_address]
          IN IF ~InRange(m.operand_a, NumRegs) THEN IndexError(m2, m.operand_a)
             ELSE [m2 EXCEPT !.PC = m2.reg[Norm(m.operand_a, NumRegs)]]

call(m) ==
  LET m1 == [m EXCEPT !.reg[SP] = @ - 1]
      sp == m1.reg[SP]
      instruction_address == m.PC + 2
  IN IF ~InRange(sp, RamSize) THEN StoreError(m1, sp)
     ELSE LET m2 == [m1 EXCEPT !.ram[Norm(sp, RamSize)] = instruction_address]
          IN IF ~InRange(m.operand_a, NumRegs) THEN IndexError(m2, m.operand_a)
             ELSE [m2 EXCEPT !.PC = m2.reg[Norm(m.operand_a, NumRegs)]]

ret(m) ==
  IF ~InRange(m.reg[SP], RamSize) THEN IndexError(m, m.reg[SP])
  ELSE [m EXCEPT !.PC = m.ram[Norm(m.reg[SP], RamSize)],
                 !.reg[SP] = @ + 1]

jmp(m) ==
  IF ~InRange(m.operand_a, NumRegs) THEN IndexError(m, m.operand_a)
  ELSE [print(m, "JUMPING") EXCEPT !.PC = m.reg[Norm(m.operand_a, NumRegs)]]

\* jeq without the manual advance on the branch not taken
jeq_stuck(m) ==
  IF ~InRange(m.operand_a, NumRegs) THEN IndexError(m, m.operand_a)
  ELSE LET address == m.reg[Norm(m.operand_a, NumRegs)] IN
       IF m.FL % 2 = 1 THEN [m EXCEPT !.PC = address]
       ELSE m

jeq(m) ==
  IF ~InRange(m.operand_a, NumRegs) THEN IndexError(m, m.operand_a)
  ELSE LET address == m.reg[Norm(m.operand_a, NumRegs)] IN
       IF m.FL % 2 = 1 THEN [m EXCEPT !.PC = address]
       ELSE [m EXCEPT !.PC = @ + 2]

jne(m) ==
  IF ~InRange(m.operand_a, NumRegs) THEN IndexError(m, m.operand_a)
  ELSE LET address == m.reg[Norm(m.operand_a, NumRegs)] IN
       IF m.FL % 2 = 0 THEN [m EXCEPT !.PC = address]
       ELSE [m EXCEPT !.PC = @ + 2]

\* sys.exit(): SystemExit with no argument, exit status 0
halt(m) == [m EXCEPT !.status = "exit", !.exit_code = 0]

\* ldi storing the register number instead of the immediate
ldi_index(m) ==
  IF ~InRange(m.operand_a, NumRegs) THEN StoreError(m, m.operand_a)
  ELSE [m EXCEPT !.reg[Norm(m.operand_a, NumRegs)] = m.operand_a]

ldi(m) ==
  IF ~InRange(m.operand_a, NumRegs) THEN StoreError(m, m.operand_a)
  ELSE [m EXCEPT !.reg[Norm(m.operand_a, NumRegs)] = m.operand_b]

\* prn printing the register number instead of its value
prn_index(m) ==
  IF ~InRange(m.operand_a, NumRegs) THEN IndexError(m, m.operand_a)
  ELSE print(m, str(m.operand_a).text)

prn(m) ==
  IF ~InRange(m.operand_a, NumRegs) THEN IndexError(m, m.operand_a)
  ELSE IF ~str(m.reg[Norm(m.operand_a, NumRegs)]).ok THEN StrError(m)
  ELSE print(m, str(m.reg[Norm(m.operand_a, NumRegs)]).text)

\* push storing at the old SP and decrementing afterwards
push_late(m) ==
  IF ~InRange(m.operand_a, NumRegs) THEN IndexError(m, m.operand_a)
  ELSE LET value == m.reg[Norm(m.operand_a, NumRegs)] IN
       IF ~InRange(m.reg[SP], RamSize) THEN StoreError(m, m.reg[SP])
       ELSE [m EXCEPT !.ram[Norm(m.reg[SP], RamSize)] = value,
                      !.reg[SP] = @ - 1]

push(m) ==
  LET m1 == [m EXCEPT !.reg[SP] = @ - 1] IN
  IF ~InRange(m.operand_a, NumRegs) THEN IndexError(m1, m.operand_a)
  ELSE LET value == m1.reg[Norm(m.operand_a, NumRegs)] IN
       IF ~InRange(m1.reg[SP], RamSize) THEN StoreError(m1, m1.reg[SP])
       ELSE [m1 EXCEPT !.ram[Norm(m1.reg[SP], RamSize)] = value]

\* pop zeroing the cell it has popped
pop_clear(m) ==
  IF ~InRange(m.reg[SP], RamSize) THEN IndexError(m, m.reg[SP])
  ELSE LET value == m.ram[Norm(m.reg[SP], RamSize)] IN
       IF ~InRange(m.operand_a, NumRegs) THEN StoreError(m, m.operand_a)
       ELSE LET m1 == [m EXCEPT !.reg[Norm(m.operand_a, NumRegs)] = value,
                                !.ram[Norm(m.reg[SP], RamSize)] = 0]
            IN [m1 EXCEPT !.reg[SP] = @ + 1]

\* pop incrementing SP before it reads the stack
pop_early(m) ==
  LET m0 == [m EXCEPT !.reg[SP] = @ + 1] IN
  IF ~InRange(m0.reg[SP], RamSize) THEN IndexError(m0, m0.reg[SP])
  ELSE LET value == m0.ram[Norm(m0.reg[SP], RamSize)] IN
       IF ~InRange(m.operand_a, NumRegs) THEN StoreError(m0, m.operand_a)
       ELSE [m0 EXCEPT !.reg[Norm(m.operand_a, NumRegs)] = value]

pop(m) ==
  IF ~InRange(m.reg[SP], RamSize) THEN IndexError(m, m.reg[SP])
  ELSE LET value == m.ram[Norm(m.reg[SP], RamSize)] IN
       IF ~InRange(m.operand_a, NumRegs) THEN StoreError(m, m.operand_a)
       ELSE LET m1 == [m EXCEPT !.reg[Norm(m.operand_a, NumRegs)] = value]
            IN [m1 EXCEPT !.reg[SP] = @ + 1]

\* the branch table built in __init__
instructions(name, m) ==
  CASE name = "HLT" -> halt(m)
    [] name = "LDI" -> ldi(m)
    [] name = "PRN" -> prn(m)
    [] name = "PUSH" -> push(m)
    [] name = "POP" -> pop(m)
    [] name = "CALL" -> call(m)
    [] name = "RET" -> ret(m)
    [] name = "JMP" -> jmp(m)
    [] name = "JEQ" -> jeq(m)
    [] name = "JNE" -> jne(m)

----------------------------------------------------------------------------
(* ALU *)

alu_add(m, reg_a, reg_b) ==
  LET m1 == print(m, "ADDING") IN
  IF ~InRange(reg_a, NumRegs) THEN IndexError(m1, reg_a)
  ELSE IF ~InRange(reg_b, NumRegs) THEN IndexError(m1, reg_b)
  ELSE [m1 EXCEPT !.reg[Norm(reg_a, NumRegs)] = @ + m.reg[Norm(reg_b, NumRegs)]]

\* SUB also setting the flags, as a compare does
alu_sub_flags(m, reg_a, reg_b) ==
  LET m1 == print(m, "SUBTRACTING") IN
  IF ~InRange(reg_a, NumRegs) THEN IndexError(m1, reg_a)
  ELSE IF ~InRange(reg_b, NumRegs) THEN IndexError(m1, reg_b)
  ELSE LET valueA == m.reg[Norm(reg_a, NumRegs)]
           valueB == m.reg[Norm(reg_b, NumRegs)]
       IN [m1 EXCEPT !.reg[Norm(reg_a, NumRegs)] = valueA - valueB,
                     !.FL = IF valueA = valueB THEN 1
                            ELSE IF valueA < valueB THEN 4 ELSE 2]

alu_sub(m, reg_a, reg_b) ==
  LET m1 == print(m, "SUBTRACTING") IN
  IF ~InRange(reg_a, NumRegs) THEN IndexError(m1, reg_a)
  ELSE IF ~InRange(reg_b, NumRegs) THEN IndexError(m1, reg_b)
  ELSE [m1 EXCEPT !.reg[Norm(reg_a, NumRegs)] = @ - m.reg[Norm(reg_b, NumRegs)]]

alu_mul(m, reg_a, reg_b) ==
  LET m1 == print(m, "MULTIPYING") IN
  IF ~InRange(reg_a, NumRegs) THEN IndexError(m1, reg_a)
  ELSE IF ~InRange(reg_b, NumRegs) THEN IndexError(m1, reg_b)
  ELSE [m1 EXCEPT !.reg[Norm(reg_a, NumRegs)] = @ * m.reg[Norm(reg_b, NumRegs)]]

\* CMP merging the new flag into the old ones instead of overwriting
alu_cmp_merge(m) ==
  IF ~InRange(m.operand_a, NumRegs) THEN IndexError(m, m.operand_a)
  ELSE IF ~InRange(m.operand_b, NumRegs) THEN IndexError(m, m.operand_b)
  ELSE LET valueA == m.reg[Norm(m.operand_a, NumRegs)]
           valueB == m.reg[Norm(m.operand_b, NumRegs)]
           new == IF valueA = valueB THEN 1 ELSE IF valueA < valueB THEN 4 ELSE 2
       IN [m EXCEPT !.FL = IF (@ \div new) % 2 = 1 THEN @ ELSE @ + new]

\* CMP reads the operand fields of the machine, three independent tests
alu_cmp(m) ==
  IF ~InRange(m.operand_a, NumRegs) THEN IndexError(m, m.operand_a)
  ELSE IF ~InRange(m.operand_b, NumRegs) THEN IndexError(m, m.operand_b)
  ELSE LET valueA == m.reg[Norm(m.operand_a, NumRegs)]
           valueB == m.reg[Norm(m.operand_b, NumRegs)]
           fl1 == IF valueA = valueB THEN 1 ELSE m.FL
           fl2 == IF valueA < valueB THEN 4 ELSE fl1
           fl3 == IF valueA > valueB THEN 2 ELSE fl2
       IN [m EXCEPT !.FL = fl3]

ALU(m, op, reg_a, reg_b) ==
  IF op = math_op.ADD THEN alu_add(m, reg_a, reg_b)
  ELSE IF op = math_op.SUB THEN alu_sub(m, reg_a, reg_b)
  ELSE IF op = math_op.MUL THEN alu_mul(m, reg_a, reg_b)
  ELSE IF op = math_op.CMP THEN alu_cmp(m)
  ELSE Raise(m, "Exception:", "Unsupported ALU operation")

----------------------------------------------------------------------------
(* Opcode classification and the program counter *)

\* (ireg << 2) % 255 >> 7
alu_bit(ireg) == ((ireg * 4) % 255) \div 128

\* (ireg << 3) % 255 >> 7
sets_pc_bit(ireg) == ((ireg * 8) % 255) \div 128

\* move_PC advancing whatever the instruction did to PC
move_PC_always(m, ireg) == [m EXCEPT !.PC = @ + (ireg \div 64) + 1]

move_PC(m, ireg) ==
  IF sets_pc_bit(ireg) # 1 THEN [m EXCEPT !.PC = @ + (ireg \div 64) + 1]
  ELSE m

----------------------------------------------------------------------------
(* The run loop *)

\* fetch reading both operands from PC + 1
fetch_same(m) ==
  LET m1 == ram_read(m, m.PC) IN
  IF m1.status # "running" THEN [m |-> m1, ireg |-> 0]
  ELSE LET m2 == ram_read(m1, m.PC + 1) IN
       IF m2.status # "running" THEN [m |-> m2, ireg |-> m1.MDR]
       ELSE LET m3 == ram_read([m2 EXCEPT !.operand_a = m2.MDR], m.PC + 1) IN
            IF m3.status # "running" THEN [m |-> m3, ireg |-> m1.MDR]
            ELSE [m |-> [m3 EXCEPT !.operand_b = m3.MDR], ireg |-> m1.MDR]

\* lines 251-255: the opcode and both operand bytes are read every cycle
fetch(m) ==
  LET m1 == ram_read(m, m.PC) IN
  IF m1.status # "running" THEN [m |-> m1, ireg |-> 0]
  ELSE LET m2 == ram_read(m1, m.PC + 1) IN
       IF m2.status # "running" THEN [m |-> m2, ireg |-> m1.MDR]
       ELSE LET m3 == ram_read([m2 EXCEPT !.operand_a = m2.MDR], m.PC + 2) IN
            IF m3.status # "running" THEN [m |-> m3, ireg |-> m1.MDR]
            ELSE [m |-> [m3 EXCEPT !.operand_b = m3.MDR], ireg |-> m1.MDR]

HexDigit ==
  <<"0", "1", "2", "3", "4", "5", "6", "7", "8", "9",
    "A", "B", "C", "D", "E", "F">>

RECURSIVE NatHex(_)
NatHex(n) == IF n < 16 THEN HexDigit[n + 1]
             ELSE NatHex(n \div 16) \o HexDigit[(n % 16) + 1]

\* "%02X" % n
Hex02(n) == IF n < 0 THEN "-" \o NatHex(-n)
            ELSE IF n < 16 THEN "0" \o NatHex(n)
            ELSE NatHex(n)

RECURSIVE RegHex(_, _)
RegHex(registers, i) ==
  IF i = NumRegs THEN ""
  ELSE " " \o Hex02(registers[i]) \o RegHex(registers, i + 1)

\* trace() writes the three bytes at PC and the registers on one line,
\* which it leaves unended; it returns None
trace(m) ==
  LET m1 == ram_read(m, m.PC) IN
  IF m1.status # "running" THEN m1
  ELSE LET m2 == ram_read(m1, m.PC + 1) IN
       IF m2.status # "running" THEN m2
       ELSE LET m3 == ram_read(m2, m.PC + 2) IN
            IF m3.status # "running" THEN m3
            ELSE write(write(m3, "TRACE: " \o Hex02(m.PC) \o " | "
                                 \o Hex02(m1.MDR) \o " " \o Hex02(m2.MDR)
                                 \o " " \o Hex02(m3.MDR) \o " |"),
                       RegHex(m.reg, 0))

\* lines 270-273: the diagnostic, print(self.trace()), which ends the
\* line of the trace with the None that trace returned, and sys.exit(1)
unrecognized(m, ireg) ==
  IF ~str(ireg).ok THEN StrError(m)
  ELSE LET m1 == print(m, "Space dog did not understand that command: "
                          \o str(ireg).text)
           m2 == trace(m1)
       IN IF m2.status # "running" THEN m2
          ELSE [print(m2, None) EXCEPT !.status = "exit", !.exit_code = 1]

\* lines 259-273: classify, execute, advance
execute(m, ireg) ==
  IF alu_bit(ireg) = 1 THEN
    LET r == ALU(m, ireg, m.operand_a, m.operand_b) IN
    IF r.status = "running" THEN move_PC(r, ireg) ELSE r
  ELSE IF alu_bit(ireg) = 0 THEN
    IF ireg \notin DOMAIN binary_op THEN KeyError(m, ireg)
    ELSE LET r == instructions(binary_op[ireg], m) IN
         IF r.status = "running" THEN move_PC(r, ireg) ELSE r
  ELSE unrecognized(m, ireg)

\* one iteration of the while loop
cycle(m) ==
  LET f == fetch(m) IN
  IF f.m.status # "running" THEN f.m ELSE execute(f.m, f.ireg)

----------------------------------------------------------------------------
(* State machine *)

Cur ==
  [ram |-> ram, reg |-> reg, PC |-> PC, FL |-> FL,
   operand_a |-> operand_a, operand_b |-> operand_b,
   MAR |-> MAR, MDR |-> MDR, out |-> out, eol |-> eol, err |-> err,
   status |-> status, exit_code |-> exit_code]

Fetched == fetch(Cur)

\* what the log keeps of one cycle: the machine at fetch and how it ended
Entry(f, m2) ==
  [pc |-> PC, fetched |-> f.m.status = "running", ireg |-> f.ireg,
   a |-> IF f.m.status = "running" THEN f.m.operand_a ELSE 0,
   b |-> IF f.m.status = "running" THEN f.m.operand_b ELSE 0,
   alu |-> IF f.m.status = "running" THEN alu_bit(f.ireg) ELSE 0,
   reg |-> reg, FL |-> FL, out |-> out,
   wr |-> {c \in 0 .. RamSize - 1 : m2.ram[c] # ram[c]},
   res |-> m2.status]

Commit(m2) ==
  /\ ram' = m2.ram
  /\ reg' = m2.reg
  /\ PC' = m2.PC
  /\ FL' = m2.FL
  /\ operand_a' = m2.operand_a
  /\ operand_b' = m2.operand_b
  /\ MAR' = m2.MAR
  /\ MDR' = m2.MDR
  /\ out' = m2.out
  /\ eol' = m2.eol
  /\ err' = m2.err
  /\ status' = m2.status
  /\ exit_code' = m2.exit_code
  /\ log' = Append(log, Entry(Fetched, m2))
  /\ UNCHANGED image

Running == status = "running" /\ Len(log) < MaxSteps

Decoded == Running /\ Fetched.m.status = "running"

\* the fetched byte is dispatched through binary_op to the named handler
Basic(name) ==
  /\ Decoded
  /\ alu_bit(Fetched.ireg) = 0
  /\ Fetched.ireg \in DOMAIN binary_op
  /\ binary_op[Fetched.ireg] = name

\* the fetched byte is handed to the ALU as the operation op
Math(op) ==
  /\ Decoded
  /\ alu_bit(Fetched.ireg) = 1
  /\ Fetched.ireg = op

StepHLT ==
  /\ Basic("HLT")
  /\ Commit(cycle(Cur))

StepLDI ==
  /\ Basic("LDI")
  /\ Commit(cycle(Cur))

StepPRN ==
  /\ Basic("PRN")
  /\ Commit(cycle(Cur))

StepPUSH ==
  /\ Basic("PUSH")
  /\ Commit(cycle(Cur))

StepPOP ==
  /\ Basic("POP")
  /\ Commit(cycle(Cur))

StepCALL ==
  /\ Basic("CALL")
  /\ Commit(cycle(Cur))

StepRET ==
  /\ Basic("RET")
  /\ Commit(cycle(Cur))

StepJMP ==
  /\ Basic("JMP")
  /\ Commit(cycle(Cur))

StepJEQ ==
  /\ Basic("JEQ")
  /\ Commit(cycle(Cur))

StepJNE ==
  /\ Basic("JNE")
  /\ Commit(cycle(Cur))

StepADD ==
  /\ Math(math_op.ADD)
  /\ Commit(cycle(Cur))

StepSUB ==
  /\ Math(math_op.SUB)
  /\ Commit(cycle(Cur))

StepMUL ==
  /\ Math(math_op.MUL)
  /\ Commit(cycle(Cur))

StepCMP ==
  /\ Math(math_op.CMP)
  /\ Commit(cycle(Cur))

\* an operand fetch past the end of memory
FetchFault ==
  /\ Running
  /\ Fetched.m.status # "running"
  /\ Commit(cycle(Cur))

\* a byte without the ALU bit that is no key of binary_op
TableMiss ==
  /\ Decoded
  /\ alu_bit(Fetched.ireg) = 0
  /\ Fetched.ireg \notin DOMAIN binary_op
  /\ Commit(cycle(Cur))

\* a byte with the ALU bit that is no value of math_op
UnsupportedALU ==
  /\ Decoded
  /\ alu_bit(Fetched.ireg) = 1
  /\ Fetched.ireg \notin {math_op.ADD, math_op.SUB, math_op.MUL, math_op.CMP}
  /\ Commit(cycle(Cur))

----------------------------------------------------------------------------
(* Program images the machine is started on *)

Byte == 0 .. 255

\* LDI r, v; HLT
ImgLdiHlt(r, v) == <<LDI, r, v, HLT>>

\* LDI R0,8; PRN R0; HLT
ImgPrint8 == <<130, 0, 8, 71, 0, 1>>

\* the register and the stack pointer are set, then PUSH r; POP r
ImgPushPop(r, v, s) == <<LDI, r, v, LDI, SP, s, PUSH, r, POP, r, HLT>>

\* an ALU operation on two loaded values, its result pushed, popped,
\* printed and compared
ImgArith(op, a, b) ==
  <<LDI, 0, a, LDI, 1, b, op, 0, 1, PUSH, 0, POP, 0, PRN, 0, CMP, 0, 1, HLT>>

\* ALU results beyond a byte used as stack pointer and jump target
ImgWide(op, a) ==
  <<LDI, 0, a, op, SP, 0, PUSH, 0, POP, 0, op, 1, 0, JMP, 1>>

\* two compares in a row, then a conditional jump to address 23
ImgCmp(j, a, b, c) ==
  <<LDI, 0, a, LDI, 1, b, LDI, 2, c, LDI, 3, 23, CMP, 0, 2, CMP, 0, 1,
    j, 3, PRN, 0, HLT, PRN, 1, HLT>>

\* a conditional jump before any compare
ImgJump(j, t) == <<LDI, 3, t, j, 3, PRN, 3, HLT, PRN, 0, HLT>>

\* a subroutine at 12 that pushes and pops, called with the stack at s
ImgCall(s, r) ==
  <<LDI, SP, s, LDI, 0, 12, CALL, r, PRN, 0, HLT, 0,
    PUSH, 0, POP, 1, RET>>

\* a subroutine at 8 that replaces its return address by 6
ImgCallOverwrite ==
  <<LDI, 0, 8, CALL, 0, HLT, HLT, 0, POP, 1, LDI, 1, 6, PUSH, 1, RET>>

\* a subroutine at 10 that calls the subroutine at 14
ImgCallNested ==
  <<LDI, 0, 10, LDI, 1, 14, CALL, 0, HLT, 0, CALL, 1, PRN, 1, RET, RET>>

\* CALL to its own address
ImgCallLoop == <<LDI, 0, 3, CALL, 0>>

\* RET at address 0 returning to address 0
ImgRetLoop == <<RET>>

ImgPops ==
  <<POP, 0, POP, 0, POP, 0, POP, 0, POP, 0, POP, 0, POP, 0, POP, 0, POP, 0,
    POP, 0, POP, 0, POP, 0, POP, 0, HLT>>

\* R0 doubles on every turn of the loop
ImgAddLoop == <<LDI, 0, 1, LDI, 1, 6, ADD, 0, 0, PRN, 0, JMP, 1>>

\* any byte as the first opcode
ImgOp(op) == <<op, 0, 1, HLT>>

\* a jump to the top of memory
ImgJumpTo(t) == <<LDI, 0, t, JMP, 0>>

\* a register operand that is no register
ImgBadReg(op, r) == <<op, r, 0, HLT>>

\* a full 256-byte image: a jump to address t, where the byte op sits
ImgTop(op, t) ==
  [i \in 1 .. RamSize |->
     IF i <= 5 THEN <<LDI, 0, t, JMP, 0>>[i] ELSE IF i = t + 1 THEN op ELSE 0]

\* two pushes, then two pops, with the stack at s
ImgStack2(s, x, y, p, q) ==
  <<LDI, 0, 11, LDI, 1, 22, LDI, SP, s, PUSH, x, PUSH, y, POP, p, POP, q, HLT>>

\* three pushes, then three pops, with the stack at s
ImgStack3(s, a, b, c) ==
  <<LDI, 0, a, LDI, 1, b, LDI, 2, c, LDI, SP, s, PUSH, 0, PUSH, 1, PUSH, 2,
    POP, 3, POP, 4, POP, 5, HLT>>

\* two pushes and two pops with the stack at s, and between them a
\* load, a jump, a compare and a print
ImgStackMixed(s) ==
  <<LDI, 1, 14, LDI, SP, s, PUSH, 0, LDI, 0, 11, JMP, 1, HLT, PUSH, 0,
    CMP, 0, 1, POP, 2, PRN, 2, POP, 3, HLT>>

\* five pushes of R0, R1, R0, R1, SP, then five pops
ImgStack5 ==
  <<LDI, 0, 11, LDI, 1, 22, PUSH, 0, PUSH, 1, PUSH, 0, PUSH, 1, PUSH, SP,
    POP, 2, POP, 3, POP, 4, POP, 5, POP, 6, HLT>>

\* a compare followed by a load and a jump
ImgFlagsJump(a, b) ==
  <<LDI, 0, a, LDI, 1, b, CMP, 0, 1, LDI, 2, 15, JMP, 2, HLT, PRN, 2, HLT>>

\* a compare followed by every kind of instruction but a jump
ImgFlags(a, b) ==
  <<LDI, 0, a, LDI, 1, b, LDI, 2, 30, CMP, 0, 1, ADD, 0, 1, SUB, 0, 1,
    MUL, 0, 1, PUSH, 0, POP, 3, CALL, 2, PRN, 0, HLT, RET>>

Values == {0, 1, 100, 200, 255}

Programs ==
  {ImgLdiHlt(r, v) : r \in 0 .. NumRegs - 1, v \in Byte}
  \cup {ImgPrint8, ImgCallOverwrite, ImgCallNested, ImgCallLoop, ImgRetLoop,
        ImgPops, ImgAddLoop}
  \cup {ImgPushPop(r, v, s) : r \in 0 .. NumRegs - 1, v \in {0, 70, 255},
                              s \in {0, 1, 9, 10, 244, 255}}
  \cup {ImgArith(op, a, b) : op \in {ADD, SUB, MUL}, a \in Values, b \in Values}
  \cup {ImgWide(op, a) : op \in {ADD, SUB, MUL}, a \in {2, 200}}
  \cup {ImgCmp(j, a, b, c) : j \in {JEQ, JNE}, a \in {0, 3, 5}, b \in {0, 3, 5},
                             c \in {0, 3, 5}}
  \cup {ImgJump(j, t) : j \in {JEQ, JNE, JMP}, t \in {5, 7, 10}}
  \cup {ImgCall(s, r) : s \in {0, 1, 2, 9, 13, 17, 244, 255}, r \in {0, SP}}
  \cup {ImgOp(op) : op \in Byte}
  \cup {ImgTop(op, t) : op \in {HLT, RET, PRN, PUSH, POP, JMP, LDI, CMP},
                        t \in {253, 254, 255}}
  \cup {ImgStack2(s, x, y, p, q) : s \in {1, 244}, x \in {0, SP}, y \in {1, SP},
                                   p \in {2, SP}, q \in {3, SP}}
  \cup {ImgStack3(s, a, b, c) : s \in {2, 244, 255}, a \in {0, 7}, b \in {0, 8},
                                c \in {0, 9}}
  \cup {ImgStack5}
  \cup {ImgStackMixed(s) : s \in {1, 244}}
  \cup {ImgFlags(a, b) : a \in {3, 5}, b \in {3, 5}}
  \cup {ImgFlagsJump(a, b) : a \in {3, 5}, b \in {3, 5}}
  \cup {ImgJumpTo(t) : t \in {253, 254, 255}}
  \cup {ImgBadReg(op, r) : op \in {LDI, PRN, PUSH, POP, CALL, JMP, JEQ, JNE,
                                   ADD, SUB, MUL, CMP}, r \in {8, 255}}

\* the k-th of the eight binary digits of a byte, as the program files
\* write it
Bin8(n, k) == IF (n \div 2 ^ (8 - k)) % 2 = 1 THEN 49 ELSE 48

\* a comment as the program files carry them: "# LS-8"
Remark == <<35, 32, 76, 83, 45, 56>>

\* the k-th character of the line of a listing for a byte: the byte, two
\* spaces, a remark, \n
ListingLine(n, k) ==
  IF k <= 8 THEN Bin8(n, k)
  ELSE IF k <= 10 THEN 32
  ELSE IF k <= 16 THEN Remark[k - 10]
  ELSE 10

\* a program file holding the image: the bare bytes, one a line, or a
\* listing with a heading, a blank line and a remark after every byte
Layouts == {"bare", "listing"}

File(program, layout) ==
  IF layout = "bare"
  THEN [j \in 1 .. 9 * Len(program) |->
          IF j % 9 = 0 THEN 10 ELSE Bin8(program[((j - 1) \div 9) + 1], j % 9)]
  ELSE Remark \o <<13, 10, 10>>
       \o [j \in 1 .. 17 * Len(program) |->
             ListingLine(program[((j - 1) \div 17) + 1], ((j - 1) % 17) + 1)]

\* run() starts on a new CPU whose load() of the program file returned
Init ==
  /\ image \in Programs
  /\ \E layout \in Layouts :
     \E m \in {load(CPU, <<"ls8.py", "program.ls8">>,
                     [name \in {"program.ls8"} |->
                        [text  |-> File(image, layout),
                         fault |-> << >>]])} :
          /\ m.status = "running"
          /\ ram = m.ram
          /\ reg = m.reg
          /\ operand_a = m.operand_a
          /\ operand_b = m.operand_b
          /\ PC = m.PC
          /\ MAR = m.MAR
          /\ MDR = m.MDR
          /\ FL = m.FL
          /\ out = m.out
          /\ eol = m.eol
          /\ err = m.err
          /\ status = m.status
          /\ exit_code = m.exit_code
  /\ log = << >>

Next ==
  \/ StepHLT
  \/ StepLDI
  \/ StepPRN
  \/ StepPUSH
  \/ StepPOP
  \/ StepCALL
  \/ StepRET
  \/ StepJMP
  \/ StepJEQ
  \/ StepJNE
  \/ StepADD
  \/ StepSUB
  \/ StepMUL
  \/ StepCMP
  \/ FetchFault
  \/ TableMiss
  \/ UnsupportedALU

Spec == Init /\ [][Next]_vars

----------------------------------------------------------------------------
(* Properties *)

Steps == Len(log)

Last == log[Steps]

\* cycle i fetched opcode op with first operand a and its handler returned
Exec(i, op, a) ==
  /\ log[i].fetched
  /\ log[i].ireg = op
  /\ log[i].a = a
  /\ log[i].res = "running"

\* the last cycle fetched opcode op and its handler returned
Retired(op) ==
  /\ Steps > 0
  /\ Last.fetched
  /\ Last.ireg = op
  /\ Last.res = "running"

\* the value register operand r named when the last cycle fetched
LastReg(r) == Last.reg[Norm(r, NumRegs)]

\* C1: the image [LDI r, v; HLT] halts after two cycles with exit code 0
\* and reg[r] = v, for every register r and every byte v.
C1_LdiHlt ==
  \A r \in 0 .. NumRegs - 1, v \in Byte :
    image = ImgLdiHlt(r, v) =>
      \/ status = "running" /\ Steps < 2
      \/ /\ Steps = 2
         /\ status = "exit"
         /\ exit_code = 0
         /\ reg[r] = v

C1_Witness ==
  /\ image = ImgLdiHlt(SP, 255)
  /\ status = "exit"
  /\ reg[SP] = 255

\* C2: the image LDI R0,8; PRN R0; HLT leaves 8 in register 0, prints
\* exactly the line "8" and then halts with exit code 0.
C2_Print8 ==
  image = ImgPrint8 =>
    CASE Steps = 0 -> status = "running" /\ out = << >>
      [] Steps = 1 -> status = "running" /\ reg[0] = 8 /\ out = << >>
      [] Steps = 2 -> status = "running" /\ reg[0] = 8 /\ out = <<"8">>
      [] Steps = 3 -> /\ status = "exit"
                      /\ exit_code = 0
                      /\ reg[0] = 8
                      /\ out = <<"8">>
      [] OTHER -> FALSE

C2_Witness ==
  /\ image = ImgPrint8
  /\ status = "exit"
  /\ out = <<"8">>

\* C3: PUSH r immediately followed by POP r leaves reg[r] and SP as they
\* were before the PUSH, for every register r including SP itself.
C3_PushPop ==
  \A r \in 0 .. NumRegs - 1 :
    (Steps >= 2 /\ Exec(Steps - 1, PUSH, r) /\ Exec(Steps, POP, r)) =>
      /\ reg[r] = log[Steps - 1].reg[r]
      /\ reg[SP] = log[Steps - 1].reg[SP]

C3_Witness ==
  /\ Steps >= 2
  /\ Exec(Steps - 1, PUSH, SP)
  /\ Exec(Steps, POP, SP)
  /\ reg[SP] = 0

\* cycle i is a CALL and the last cycle is the RET that finds the stack
\* pointer where that CALL left it and the cell that CALL wrote untouched
Returns(i) ==
  /\ log[i].fetched
  /\ log[i].ireg = CALL
  /\ log[i].res = "running"
  /\ Retired(RET)
  /\ Last.reg[SP] = log[i].reg[SP] - 1
  /\ \A k \in i + 1 .. Steps - 1 :
       Norm(log[i].reg[SP] - 1, RamSize) \notin log[k].wr

\* C4: a RET executed with SP back at s - 1 and the return cell intact
\* leaves PC = p + 2 and SP = s, where the CALL ran at p with SP = s.
C4_CallRet ==
  \A i \in 1 .. Steps - 1 :
    Returns(i) => PC = log[i].pc + 2 /\ reg[SP] = log[i].reg[SP]

C4_Witness ==
  \E i \in 1 .. Steps - 3 : Returns(i) /\ log[i + 1].wr # {}

\* C5: CMP leaves FL = 1 when a = b, 4 when a < b and 2 when a > b,
\* whatever FL held before.
C5_Cmp ==
  Retired(CMP) =>
    LET a == LastReg(Last.a)
        b == LastReg(Last.b)
    IN FL = IF a = b THEN 1 ELSE IF a < b THEN 4 ELSE 2

C5_Witness ==
  /\ Retired(CMP)
  /\ Last.FL = 4
  /\ FL = 1

\* C6: JEQ leaves PC = reg[r] when the Equal flag is set and PC = p + 2
\* when it is clear; JNE the other way round; nothing more is added.
C6_CondJump ==
  /\ Retired(JEQ) =>
       PC = IF Last.FL % 2 = 1 THEN LastReg(Last.a) ELSE Last.pc + 2
  /\ Retired(JNE) =>
       PC = IF Last.FL % 2 = 0 THEN LastReg(Last.a) ELSE Last.pc + 2

C6_Witness ==
  /\ Retired(JEQ)
  /\ Last.FL = 2
  /\ PC = Last.pc + 2
  /\ LastReg(Last.a) # PC

\* the value the handler of a PC-setting instruction assigns to PC
Assigned ==
  CASE Last.ireg = CALL ->
         IF Norm(Last.a, NumRegs) = SP THEN Last.reg[SP] - 1
         ELSE LastReg(Last.a)
    [] Last.ireg = RET -> ram[Norm(Last.reg[SP], RamSize)]
    [] Last.ireg = JMP -> LastReg(Last.a)
    [] Last.ireg = JEQ ->
         IF Last.FL % 2 = 1 THEN LastReg(Last.a) ELSE Last.pc + 2
    [] Last.ireg = JNE ->
         IF Last.FL % 2 = 0 THEN LastReg(Last.a) ELSE Last.pc + 2

\* C7: an instruction that does not set PC leaves PC = PC at fetch +
\* (top two bits of the opcode) + 1; one that sets PC leaves exactly the
\* value its handler assigned.
C7_Advance ==
  /\ \A op \in {LDI, PRN, PUSH, POP, ADD, SUB, MUL, CMP} :
       Retired(op) => PC = Last.pc + (op \div 64) + 1
  /\ \A op \in {CALL, RET, JMP, JEQ, JNE} :
       Retired(op) => PC = Assigned

C7_Witness ==
  /\ Retired(JMP)
  /\ PC # Last.pc + 2
  /\ Steps >= 2
  /\ Exec(Steps - 1, LDI, Last.a)
  /\ Last.pc = log[Steps - 1].pc + 3

\* C8: ADD, SUB and MUL wrap to 8 bits: on register values a, b in 0..255
\* the result register holds (a + b), (a - b), (a * b) mod 256.
C8_Wrapping ==
  \A op \in {ADD, SUB, MUL} :
    (Retired(op) /\ LastReg(Last.a) \in Byte /\ LastReg(Last.b) \in Byte) =>
      LET a == LastReg(Last.a)
          b == LastReg(Last.b)
          r == reg[Norm(Last.a, NumRegs)]
      IN /\ r \in Byte
         /\ op = ADD => r = (a + b) % 256
         /\ op = SUB => r = (a - b) % 256
         /\ op = MUL => r = (a * b) % 256

\* a diagnostic naming the opcode n: the line the run loop prints for an
\* unrecognized instruction, or a traceback whose message is n
Diagnoses(n) ==
  \/ \E i \in 1 .. Len(out) :
       out[i] = "Space dog did not understand that command: " \o str(n).text
  \/ err # << >> /\ err[2] = str(n).text

\* C9: a fetched byte in neither table ends the run with a diagnostic
\* naming the byte and exit status 1, and no handler has run.
C9_DecodeFault ==
  (/\ Steps > 0
   /\ Last.fetched
   /\ Last.ireg \notin DOMAIN binary_op
   /\ Last.ireg \notin {math_op.ADD, math_op.SUB, math_op.MUL, math_op.CMP}) =>
    /\ status # "running"
    /\ exit_code = 1
    /\ Diagnoses(Last.ireg)
    /\ reg = Last.reg
    /\ FL = Last.FL
    /\ PC = Last.pc
    /\ Last.wr = {}

\* C10: the stack pointer always holds a memory address, a value in 0..255.
C10_SPValid == reg[SP] \in 0 .. RamSize - 1

\* the byte is a key of neither table
Unmapped(op) ==
  /\ op \notin DOMAIN binary_op
  /\ op \notin {math_op.ADD, math_op.SUB, math_op.MUL, math_op.CMP}

\* C11: the run ends only by HLT or by a fault raised for an unmapped
\* opcode: every state in which the loop has stopped is one of the two.
C11_TwoExits ==
  status # "running" =>
    \/ /\ status = "exit"
       /\ exit_code = 0
       /\ Last.fetched
       /\ Last.ireg = HLT
    \/ /\ Last.fetched
       /\ Unmapped(Last.ireg)

\* the flags a compare of a with b leaves
Flags(a, b) == IF a = b THEN 1 ELSE IF a < b THEN 4 ELSE 2

\* the flags set by the most recent CMP among the first i cycles, 0 if none
RECURSIVE FlagsAfter(_)
FlagsAfter(i) ==
  IF i = 0 THEN 0
  ELSE IF log[i].fetched /\ log[i].ireg = CMP /\ log[i].res = "running"
    THEN Flags(log[i].reg[Norm(log[i].a, NumRegs)],
               log[i].reg[Norm(log[i].b, NumRegs)])
    ELSE FlagsAfter(i - 1)

\* C12: only CMP changes FL: any other cycle leaves FL as it was, and FL is
\* always the value of the most recent CMP, or 0 when there was none.
C12_FlagsFrame ==
  /\ (Steps > 0 /\ ~(Last.fetched /\ Last.ireg = CMP)) => FL = Last.FL
  /\ FL = FlagsAfter(Steps)

C12_Witness ==
  /\ Steps >= 3
  /\ Retired(SUB)
  /\ Exec(Steps - 2, CMP, 0)
  /\ FL = 4

\* C13: from every running state whose instruction at PC is PRN r, for a
\* register r, the cycle leaves the registers, the memory and FL alone,
\* advances PC by 2 and adds one output line, the decimal value of reg[r].
C13_PrnFrame ==
  \A r \in 0 .. NumRegs - 1 :
    ( /\ status = "running"
      /\ PC \in 0 .. RamSize - 2
      /\ ram[PC] = PRN
      /\ ram[PC + 1] = r )
    => \E m \in {cycle(Cur)} :
         /\ m.status = "running"
         /\ m.reg = reg
         /\ m.ram = ram
         /\ m.FL = FL
         /\ m.PC = PC + 2
         /\ m.out = Append(out, str(reg[r]).text)

\* the lines of the PRN instructions retired among the first i cycles
RECURSIVE PrnLines(_)
PrnLines(i) ==
  IF i = 0 THEN << >>
  ELSE IF log[i].fetched /\ log[i].ireg = PRN /\ log[i].res = "running"
    THEN Append(PrnLines(i - 1),
                str(log[i].reg[Norm(log[i].a, NumRegs)]).text)
    ELSE PrnLines(i - 1)

\* C14: the output stream holds exactly one line per retired PRN, the
\* decimal value of its register, in the order the PRNs retired.
C14_OnlyPrn == out = PrnLines(Steps)

\* C15: a byte is classified as an ALU operation exactly when its bit 5
\* is 1, for all 256 byte values.
C15_AluBit ==
  (Steps > 0 /\ Last.fetched /\ Last.ireg \in Byte) =>
    Last.alu = (Last.ireg \div 32) % 2

\* a fetch that reads only the operand bytes the opcode declares in its
\* top two bits
fetch_declared(m) ==
  LET m1 == ram_read(m, m.PC) IN
  IF m1.status # "running" THEN [m |-> m1, ireg |-> 0]
  ELSE IF m1.MDR \div 64 < 1 THEN [m |-> m1, ireg |-> m1.MDR]
  ELSE LET m2 == ram_read(m1, m.PC + 1) IN
       IF m2.status # "running" THEN [m |-> m2, ireg |-> m1.MDR]
       ELSE LET m2a == [m2 EXCEPT !.operand_a = m2.MDR] IN
            IF m1.MDR \div 64 < 2 THEN [m |-> m2a, ireg |-> m1.MDR]
            ELSE LET m3 == ram_read(m2a, m.PC + 2) IN
                 IF m3.status # "running" THEN [m |-> m3, ireg |-> m1.MDR]
                 ELSE [m |-> [m3 EXCEPT !.operand_b = m3.MDR],
                       ireg |-> m1.MDR]

\* one cycle of the machine that fetches only the declared operands
cycle_declared(m) ==
  LET f == fetch_declared(m) IN
  IF f.m.status # "running" THEN f.m ELSE execute(f.m, f.ireg)

\* registers, memory, flags, PC, output and termination outcome
Observable(m) ==
  [reg |-> m.reg, ram |-> m.ram, FL |-> m.FL, PC |-> m.PC, out |-> m.out,
   status |-> m.status, exit_code |-> m.exit_code, err |-> m.err]

\* C16: reading PC + 1 and PC + 2 on every cycle is unobservable: from
\* every state the cycle ends as that of a machine reading only the
\* operand bytes the instruction declares.
C16_FetchUnobservable ==
  status = "running" =>
    Observable(cycle(Cur)) = Observable(cycle_declared(Cur))

\* the cell a PUSH or CALL of the last cycle addresses: the decremented SP
StackCell == Norm(Last.reg[SP] - 1, RamSize)

\* C17: only PUSH and CALL write memory, and only the cell addressed by the
\* decremented SP, which then holds the pushed value; every other cycle
\* leaves all cells unchanged.
C17_MemoryFrame ==
  Steps > 0 =>
    /\ ~(Last.fetched /\ Last.ireg \in {PUSH, CALL}) => Last.wr = {}
    /\ (Last.fetched /\ Last.ireg \in {PUSH, CALL}) => Last.wr \subseteq {StackCell}
    /\ Retired(PUSH) =>
         ram[StackCell] = IF Norm(Last.a, NumRegs) = SP THEN Last.reg[SP] - 1
                          ELSE LastReg(Last.a)
    /\ Retired(CALL) => ram[StackCell] = Last.pc + 2

C17_Witness ==
  /\ Retired(CALL)
  /\ Last.wr = {StackCell}
  /\ Steps >= 2
  /\ log[Steps - 1].wr = {}

\* C18: the operand fields a CMP reads are the bytes at PC + 1 and PC + 2 of
\* that CMP, they are the ALU's arguments, and the flags are those of
\* comparing the registers these bytes name.
C18_CmpOperands ==
  Retired(CMP) =>
    LET a == ram[Norm(Last.pc + 1, RamSize)]
        b == ram[Norm(Last.pc + 2, RamSize)]
    IN /\ operand_a = a
       /\ operand_b = b
       /\ Last.a = a
       /\ Last.b = b
       /\ FL = Flags(Last.reg[Norm(a, NumRegs)], Last.reg[Norm(b, NumRegs)])

C18_Witness ==
  /\ Retired(CMP)
  /\ operand_a # operand_b
  /\ Last.pc > 0
  /\ FL = 2

\* the registers as cycle i left them
RegAfter(i) == IF i = Steps THEN reg ELSE log[i + 1].reg

\* the value the PUSH of cycle i stored
Pushed(i) ==
  IF Norm(log[i].a, NumRegs) = SP THEN log[i].reg[SP] - 1
  ELSE log[i].reg[Norm(log[i].a, NumRegs)]

\* the value the POP of cycle i left in its register
Popped(i) == RegAfter(i)[Norm(log[i].a, NumRegs)]

\* cycle i fetched its instruction and the handler returned
Ran(i) == log[i].fetched /\ log[i].res = "running"

\* cycle i ran an instruction that writes SP as its result register
WritesSP(i) ==
  /\ log[i].ireg \in {LDI, ADD, SUB, MUL}
  /\ Norm(log[i].a, NumRegs) = SP

\* the PUSHes and the POPs among the cycles from first on
Pushes(first) == {i \in first .. Steps : log[i].ireg = PUSH}

Pops(first) == {i \in first .. Steps : log[i].ireg = POP}

\* the cycles from first on are PUSHes followed by as many POPs, the
\* first of them a PUSH and the last a POP, and what runs between them is
\* neither a stack instruction nor one that writes SP
PushesThenPops(first) ==
  /\ \A i \in first .. Steps : Ran(i)
  /\ log[first].ireg = PUSH
  /\ log[Steps].ireg = POP
  /\ Cardinality(Pushes(first)) = Cardinality(Pops(first))
  /\ \A i \in Pushes(first) : \A j \in Pops(first) : i < j
  /\ \A i \in first .. Steps : log[i].ireg \notin {CALL, RET} /\ ~WritesSP(i)

\* none of the POPs names the stack pointer as its register
PopsSpareSP(first) ==
  \A i \in Pops(first) : Norm(log[i].a, NumRegs) # SP

\* last in, first out: the k-th POP returns what the k-th PUSH from the
\* end stored; one cell down per PUSH, one up per POP, and SP back where
\* the first PUSH found it
LifoOrder(first) ==
  /\ \A p \in Pops(first) : \A q \in Pushes(first) :
       Cardinality({i \in Pops(first) : i <= p})
         = Cardinality({i \in Pushes(first) : i >= q})
       => Popped(p) = Pushed(q)
  /\ \A q \in Pushes(first) : RegAfter(q)[SP] = log[q].reg[SP] - 1
  /\ \A p \in Pops(first) : RegAfter(p)[SP] = log[p].reg[SP] + 1
  /\ reg[SP] = log[first].reg[SP]

\* C19 as stated: for every n >= 1, n PUSHes followed by n POPs, whatever
\* their registers, with no other stack or SP-writing instruction in
\* between, are last in first out and bring SP back to where it was.
C19_LifoAnyRegister ==
  \A first \in 1 .. Steps :
    (PushesThenPops(first) /\ Cardinality(Pushes(first)) >= 1)
    => LifoOrder(first)

\* C19, amended: for every n from 1 to the number of memory cells, n
\* PUSHes followed by n POPs into registers other than SP, with no other
\* stack or SP-writing instruction in between, are last in first out,
\* move SP by one each and bring it back.
C19_Lifo ==
  \A first \in 1 .. Steps :
    ( /\ PushesThenPops(first)
      /\ Cardinality(Pushes(first)) \in 1 .. RamSize
      /\ PopsSpareSP(first) )
    => LifoOrder(first)

\* two PUSHes and two POPs with a load, a jump, a compare and a print
\* running between them
C19_Witness ==
  \E first \in 1 .. Steps :
    /\ PushesThenPops(first)
    /\ PopsSpareSP(first)
    /\ Cardinality(Pushes(first)) = 2
    /\ \A op \in {LDI, JMP, CMP, PRN} :
         \E i \in first .. Steps : log[i].ireg = op
    /\ \A p \in Pushes(first) : \A q \in Pushes(first) :
         p # q => Pushed(p) # Pushed(q)

====
